---- MODULE Spec2Model ----
(***************************************************************************)
(* Liveness supervision of the hospital-monitor service as the deployment  *)
(* scripts configure it: the watchdog daemon driven by /etc/watchdog.conf  *)
(* (heartbeat file, load, memory, pid file, hardware timer), the systemd   *)
(* unit hospital-monitor.service (Restart=always, RestartSec=10, no start  *)
(* limit) and the operator's maintenance menu.                             *)
(*                                                                         *)
(* Time is counted in seconds and advances in steps of Quantum, the finest *)
(* period any configuration sets.  Timers are relative (seconds since the  *)
(* event), so the state space is finite.                                   *)
(***************************************************************************)
EXTENDS Integers, Sequences, FiniteSets, TLC

VARIABLES
    wdconf,         \* /etc/watchdog.conf in place: "none", "deploy", "new"
    daemonConf,     \* the configuration the running daemon read at its start
    daemon,         \* watchdog daemon: "active", "inactive", or "killed"
                    \* (dead without having closed /dev/watchdog)
    daemonEnabled,  \* systemctl enable/disable watchdog
    sincePoll,      \* seconds since the daemon's last check cycle
    sinceRefresh,   \* seconds since /dev/watchdog was last fed
    hb,             \* /tmp/hospital-monitor-heartbeat: [exists, valid, age]
    svc,            \* hospital-monitor.service state
    proc,           \* main.py process: "none", "ok", "hung"
    sinceWrite,     \* seconds since the process last wrote its heartbeat
    restartTimer,   \* seconds since the process exited (auto-restart wait)
    exitCause,      \* why the process last exited: "none", "crash", "memcap",
                    \* "stop" (stopped by systemctl stop),
                    \* "restart" (stopped by systemctl restart, start queued)
    host,           \* "up", "frozen" (kernel hang), "reset" (rebooting)
    resetCause,     \* what ordered the last reset: "none", "daemon", "hwtimer"
    obs,            \* what the daemon's last check cycle saw and decided
    observeBudget,  \* what the run records: the relaunches per budget
                    \* window (TRUE) or the daemon's check cycles (FALSE)
    winAge,         \* seconds since the first relaunch of the current window
    winCount,       \* automatic relaunches since that first relaunch
    breachRun,      \* consecutive breaching resource samples up to the last
    staleSeen,      \* check cycles that saw the record Stale since its last update
    lastDelay,      \* wait before the last automatic relaunch, -1 if none
    disarmedBy,     \* what last stopped the daemon
    settingsPage,   \* SystemSettings component: settings, loading, saving, ...
    backend,        \* the web backend: the settings in effect
    passwordPage,   \* PasswordChange component: the three fields, saving, ...
    installFs,      \* /opt/hospital-monitor as the installation scripts see it
    homePage,       \* Home component: authenticated, the checkAuth request
    dashboard,      \* Dashboard component: view, config, settings, loading, ...
    logViewer       \* LogViewer component: file, filters, page, entries, ...

wdVars == << wdconf, daemonConf, daemon, daemonEnabled, sincePoll,
            sinceRefresh, disarmedBy >>
svcVars == << svc, proc, sinceWrite, restartTimer, lastDelay, exitCause >>
hostVars == << host, resetCause >>
winVars == << observeBudget, winAge, winCount >>

supVars ==
    << wdVars, svcVars, hostVars, winVars, hb, obs, breachRun, staleSeen >>
pageVars == << homePage, dashboard, logViewer >>
restVars == << installFs, pageVars >>
uiVars == << settingsPage, backend, passwordPage, restVars >>

vars == << supVars, uiVars >>

----------------------------------------------------------------------------
(* Time base and bounds *)

Quantum == 5
MaxAge == 130
MaxStaleSeen == 2
MaxSkew == 20

Min(a, b) == IF a < b THEN a ELSE b

----------------------------------------------------------------------------
(* /etc/watchdog.conf as written by the two setup-watchdog.sh scripts *)

WatchdogTimeout == 15
MaxLoad1 == 24
MinMemory == 1
HeartbeatInterval == 30

Confs == {"deploy", "new"}

IntervalShort(c) == IF c = "deploy" THEN 5 ELSE 5
IntervalLong(c) == IF c = "deploy" THEN 5 ELSE 15
Interval(c) == IF c = "deploy" THEN 5 ELSE 10

ChangeTight(c) == IF c = "deploy" THEN 120 ELSE 20
Change(c) == IF c = "deploy" THEN 120 ELSE 90

HasPidfile(c) == c = "new"

\* the hardware timer counts from the moment the daemon opens /dev/watchdog
\* until the daemon closes it in an orderly stop
ArmedWhileFed == daemon = "active"
Armed == daemon \in {"active", "killed"}

\* the daemon reads /etc/watchdog.conf once, when it starts; its cycles use
\* the values read then, not the file as it is now
ChangeOnDisk == Change(wdconf)
ChangeInUse == Change(daemonConf)

----------------------------------------------------------------------------
(* hospital-monitor.service *)

RestartSec == 10
StartLimitIntervalSec == 0

\* the restart budget of the design: cap and window length of its scenario
maxRestartsPerWindow == 5
windowDuration == 60

RestartDueAtOnce(t) == t >= 0
RestartDueEarly(t) == t >= Quantum
RestartDue(t) == t >= RestartSec

\* StartLimitIntervalSec=0 switches systemd's start rate limiting off
RestartLimitedByBudget == winCount >= maxRestartsPerWindow
RestartLimited == StartLimitIntervalSec # 0

\* the process exits on its own (crash) or is killed at MemoryMax=768M
ExitCauses == {"crash", "memcap"}

\* Restart=always: every exit is relaunched, whatever ended the process
RestartsExceptKill(cause) == cause # "memcap"
RestartsNever(cause) == FALSE
Restarts(cause) == cause \in ExitCauses

\* the automatic relaunch is due
AutoRestartDue ==
    RestartDue(restartTimer) /\ ~RestartLimited /\ Restarts(exitCause)

----------------------------------------------------------------------------
(* The daemon's tests *)

ClassifyStrict(age, change) == IF age >= change THEN "Stale" ELSE "Fresh"
Classify(age, change) == IF age > change THEN "Stale" ELSE "Fresh"

\* file/change test: existence and modification time only, never content
ObserveContent(f, change) ==
    IF ~f.exists \/ ~f.valid
    THEN [absent |-> ~f.exists, inf |-> TRUE, age |-> 0, class |-> "Stale"]
    ELSE [absent |-> FALSE, inf |-> FALSE, age |-> f.age,
          class |-> Classify(f.age, change)]
Observe(f, change) ==
    IF ~f.exists
    THEN [absent |-> TRUE, inf |-> TRUE, age |-> 0, class |-> "Stale"]
    ELSE [absent |-> FALSE, inf |-> FALSE, age |-> f.age,
          class |-> Classify(f.age, change)]

BreachBoth(load, free) == load > MaxLoad1 /\ free < MinMemory
Breach(load, free) == load > MaxLoad1 \/ free < MinMemory

PidOk(c, p) == HasPidfile(c) => p # "none"

RebootOnlyOnTwo(class, pressure, pidok) == class = "Stale" /\ pressure
RebootNeverOnStale(class, pressure, pidok) == pressure \/ ~pidok
RebootLatched(class, pressure, pidok) ==
    (class = "Stale" /\ staleSeen = 0) \/ pressure \/ ~pidok
RebootDecision(class, pressure, pidok) ==
    class = "Stale" \/ pressure \/ ~pidok

Loads == {MaxLoad1, MaxLoad1 + 1}
Frees == {MinMemory - 1, MinMemory}

NoObs == [polled |-> FALSE, absent |-> FALSE, valid |-> FALSE, inf |-> FALSE,
          age |-> 0, class |-> "Fresh", change |-> 0, load |-> 0, free |-> 0,
          pressure |-> FALSE, pidok |-> TRUE, reboot |-> FALSE,
          interval |-> 0, haspid |-> FALSE]

NoFile == [exists |-> FALSE, valid |-> FALSE, age |-> 0]

----------------------------------------------------------------------------
(* The web interface: values of the SystemSettings form and of the backend *)

\* a JavaScript number, in tenths, or NaN
Num(v) == [nan |-> FALSE, v |-> v]
NaN == [nan |-> TRUE, v |-> 0]
isNaN(x) == x.nan

IsDigit(c) == c \in {"0", "1", "3", "5"}
DigitVal(c) == CASE c = "0" -> 0 [] c = "1" -> 1 [] c = "3" -> 3 [] c = "5" -> 5

\* the run of digits of s from position i on: its value, the position after it
RECURSIVE ScanDigits(_, _, _)
ScanDigits(s, i, acc) ==
    IF i <= Len(s) /\ IsDigit(s[i])
    THEN ScanDigits(s, i + 1, acc * 10 + DigitVal(s[i]))
    ELSE [val |-> acc, next |-> i]

\* parseFloat: the longest numeric prefix (sign, digits, point, digits), NaN
\* when there is none; the value is kept in tenths
parseFloat(s) ==
    LET neg == Len(s) >= 1 /\ s[1] = "-"
        first == IF neg THEN 2 ELSE 1
        ip == ScanDigits(s, first, 0)
        fd == /\ ip.next + 1 <= Len(s)
              /\ s[ip.next] = "."
              /\ IsDigit(s[ip.next + 1])
        tenths == ip.val * 10 + (IF fd THEN DigitVal(s[ip.next + 1]) ELSE 0)
    IN  IF ip.next = first /\ ~fd THEN NaN
        ELSE IF neg THEN Num(0 - tenths) ELSE Num(tenths)

\* e.target.value of an <Input type="number">: empty, or the text of a number
Inputs == { << >>, << "0" >>, << "3" >>, << "0", ".", "5" >>, << "5" >>,
            << "-", "1" >> }

BoolFields == {"DEV_MODE"}
NumberFields == {"POSE_FRAMES_TO_CONFIRM", "EMA_ALPHA"}

\* the settings the backend starts with
DefaultSettings ==
    [DEV_MODE |-> TRUE, POSE_FRAMES_TO_CONFIRM |-> Num(30),
     EMA_ALPHA |-> Num(3)]

\* the ranges of the settings: POSE_FRAMES_TO_CONFIRM >= 1, 0 <= EMA_ALPHA <= 1
SettingsValid(st) ==
    /\ ~isNaN(st.POSE_FRAMES_TO_CONFIRM) /\ st.POSE_FRAMES_TO_CONFIRM.v >= 10
    /\ ~isNaN(st.EMA_ALPHA) /\ st.EMA_ALPHA.v >= 0 /\ st.EMA_ALPHA.v <= 10

NoRequest == [some |-> FALSE, body |-> DefaultSettings]

\* useState(null), useState(true), useState(false)
InitSettingsPage ==
    [isNull |-> TRUE, settings |-> DefaultSettings, loading |-> TRUE,
     saving |-> FALSE, pending |-> NoRequest, toast |-> "none"]

\* what is typed into the password fields
Passwords == {"", "abcde", "abcdef", "abcdeg"}
CurrentPasswords == {"", "atual"}

NoPasswordRequest ==
    [some |-> FALSE, current_password |-> "", new_password |-> ""]

\* useState("") three times, useState(false)
InitPasswordPage ==
    [currentPassword |-> "", newPassword |-> "", confirmPassword |-> "",
     saving |-> FALSE, pending |-> NoPasswordRequest, toast |-> "none"]

InitForms ==
    /\ settingsPage = InitSettingsPage
    /\ backend = [settings |-> DefaultSettings]
    /\ passwordPage = InitPasswordPage

----------------------------------------------------------------------------
(* The installation: $CONFIG_DIR/environment.json, $DATA_DIR, $INSTALL_DIR *)

\* files the project ships under data/ and the service keeps under $DATA_DIR
DataFiles == {"bed_reference.json", "logs/alerts.log"}

\* where the content of a file comes from: no file, written on the site
\* (operator, service), the project's file, the project's example
EnvContents == {"none", "site", "bundled", "example"}
DataContents == {"none", "site", "bundled"}

\* releases of the project a source tree can hold
Versions == {"v1", "v2"}

NoRun ==
    [script |-> "none", srcData |-> {}, srcEnv |-> FALSE, srcExample |-> FALSE,
     beforeEnv |-> "none", beforeData |-> [f \in DataFiles |-> "none"],
     copied |-> "none", aborted |-> FALSE]

\* the states of the target a run of the script can find
FsStates ==
    [env : EnvContents, data : [DataFiles -> DataContents],
     code : {"none"} \cup Versions, run : {NoRun}]

NothingInstalled ==
    [env |-> "none", data |-> [f \in DataFiles |-> "none"], code |-> "none",
     run |-> NoRun]

\* [ ! -f "$CONFIG_DIR/environment.json" ]
EnvMissing(env) == env = "none"

\* cp -rn: a file of the source is copied only where the target has none
\* (cp -r would replace every file of the same name)
CopyOverwrite(dst, src) ==
    [f \in DataFiles |-> IF f \in src THEN "bundled" ELSE dst[f]]
CopyNoClobber(dst, src) ==
    [f \in DataFiles |->
        IF f \in src /\ dst[f] = "none" THEN "bundled" ELSE dst[f]]

----------------------------------------------------------------------------
(* The web interface: the Home page and the Dashboard *)

MaxLoads == 2

\* type View
Views == {"dashboard", "device", "settings", "password", "images", "logs"}

\* what GET /auth/check can answer in its authenticated field
AuthAnswers == {"true", "false", "undefined"}

\* useState<boolean | null>(null); the checkAuth request of useEffect is out
InitHomePage == [authenticated |-> "null", check |-> "pending"]

\* useState('dashboard'), useState(null) four times, useState(true),
\* useState(false); useEffect has called loadData
InitDashboard ==
    [mounted |-> TRUE, view |-> "dashboard", config |-> "null",
     settings |-> [isNull |-> TRUE, value |-> DefaultSettings],
     loading |-> TRUE, restarting |-> FALSE, loggingOut |-> FALSE,
     loads |-> 1, timers |-> 0, toast |-> "none"]

\* the Dashboard is not rendered: its requests in flight find no component
NoDashboard ==
    [InitDashboard EXCEPT !.mounted = FALSE, !.loads = 0, !.loading = FALSE]

\* authenticated === null renders the spinner; otherwise
\* authenticated ? <Dashboard/> : <LoginForm/>
DashboardRendered == homePage.authenticated = "true"
LoginFormRendered == homePage.authenticated \in {"false", "undefined"}

\* the Dashboard shows its cards
CardsShown ==
    dashboard.mounted /\ ~dashboard.loading /\ dashboard.view = "dashboard"

\* {settings?.DEV_MODE && ( <Card ... Imagens DEV
ImagesCardShown ==
    CardsShown /\ ~dashboard.settings.isNull /\ dashboard.settings.value.DEV_MODE

\* const ENTRIES_PER_PAGE = 50
ENTRIES_PER_PAGE == 50

MaxInFlight == 2

\* the files GET /diagnostics/logs/files lists, and what the selects and
\* the search box offer ("" is no filter)
LogFileNames == {"alerts.log", "system.log"}
Levels == {"", "ERROR"}
Categories == {"", "ALERTA"}
SearchTexts == {"", "x"}

\* LogsResponse.total_lines: the lines of the file that pass the filters
total_lines(request) ==
    LET lines == IF request.file = "alerts.log" THEN 120 ELSE 60
        byLevel == IF request.level = "" THEN lines ELSE lines \div 2
        byCategory == IF request.category = "" THEN byLevel
                      ELSE byLevel \div 2
    IN  IF request.search = "" THEN byCategory ELSE byCategory \div 6

\* the parameters loadLogs hands to getLogs, from the state it closed over
CurrentRequest(lv) ==
    [file |-> lv.selectedFile, level |-> lv.levelFilter,
     category |-> lv.categoryFilter, search |-> lv.searchText,
     offset |-> lv.currentPage * ENTRIES_PER_PAGE]

\* loadLogs as created by the render with state `closure`: setLoading(true)
\* and the request is out
loadLogs(lv, closure) ==
    [lv EXCEPT !.loading = TRUE,
               !.requests = Append(@, CurrentRequest(closure)),
               !.issued = CurrentRequest(closure)]

\* useState<LogEntry[]>([]): the rows of no request
NoEntries ==
    [file |-> "none", level |-> "", category |-> "", search |-> "",
     offset |-> 0]

\* the useState calls of LogViewer; both useEffects have run: loadLogFiles
\* and loadLogs are out
InitLogViewer ==
    LET fresh == [selectedFile |-> "alerts.log", levelFilter |-> "",
                  categoryFilter |-> "", searchText |-> "",
                  currentPage |-> 0, showFilters |-> FALSE,
                  entries |-> NoEntries, totalLines |-> 0, loading |-> TRUE,
                  logFiles |-> "pending", requests |-> << >>,
                  issued |-> NoEntries, toast |-> "none"]
    IN  loadLogs(fresh, fresh)

\* the LogViewer has not been rendered yet
NoLogViewer ==
    [InitLogViewer EXCEPT !.requests = << >>, !.logFiles = "empty"]

InitPages ==
    /\ homePage = InitHomePage
    /\ dashboard = NoDashboard
    /\ logViewer = NoLogViewer

InitUi ==
    /\ InitForms
    /\ InitPages
    /\ installFs = NothingInstalled

----------------------------------------------------------------------------
InitSupervision ==
    /\ wdconf = "none"
    /\ daemonConf = "none"
    /\ daemon = "inactive"
    /\ daemonEnabled = FALSE
    /\ sincePoll = 0
    /\ sinceRefresh = 0
    /\ hb = NoFile
    /\ svc = "Stopped"
    /\ proc = "none"
    /\ sinceWrite = 0
    /\ restartTimer = 0
    /\ exitCause = "none"
    /\ host = "up"
    /\ resetCause = "none"
    /\ obs = NoObs
    /\ winAge = 0
    /\ winCount = 0
    /\ breachRun = 0
    /\ staleSeen = 0
    /\ lastDelay = -1
    /\ disarmedBy = "none"

InitState == InitUi /\ InitSupervision

\* a run records either the daemon's check cycles or the relaunches per
\* budget window; what the system does is the same in both
Init == InitState /\ observeBudget = FALSE

InitBudget == InitState /\ observeBudget = TRUE

----------------------------------------------------------------------------
(* hospital-monitor.service under systemd *)

\* ExecStart: fork main.py; the process writes its first heartbeat one
\* heartbeat interval after it starts
Launch ==
    /\ svc' = "Starting"
    /\ proc' = "ok"
    /\ sinceWrite' = 0
    /\ restartTimer' = 0

\* sudo systemctl start hospital-monitor
systemctl_start ==
    /\ host = "up"
    /\ svc = "Stopped"
    /\ Launch
    /\ lastDelay' = -1
    /\ exitCause' = "none"
    /\ UNCHANGED << wdVars, hostVars, winVars, hb, obs, breachRun, staleSeen >>
    /\ UNCHANGED uiVars

\* Type=simple: the unit is started as soon as the process is forked (a unit
\* that waited for the process to report, as Type=notify does, would become
\* started only on a first fresh heartbeat)
StartCompleteOnHeartbeat ==
    /\ host = "up"
    /\ svc = "Starting"
    /\ hb.exists /\ hb.valid /\ hb.age <= HeartbeatInterval
    /\ svc' = "Running"
    /\ lastDelay' = -1
    /\ exitCause' = "none"
    /\ UNCHANGED << proc, sinceWrite, restartTimer >>
    /\ UNCHANGED << wdVars, hostVars, winVars, hb, obs, breachRun, staleSeen >>
    /\ UNCHANGED uiVars
StartComplete ==
    /\ host = "up"
    /\ svc = "Starting"
    /\ svc' = "Running"
    /\ lastDelay' = -1
    /\ exitCause' = "none"
    /\ UNCHANGED << proc, sinceWrite, restartTimer >>
    /\ UNCHANGED << wdVars, hostVars, winVars, hb, obs, breachRun, staleSeen >>
    /\ UNCHANGED uiVars

\* sudo systemctl stop hospital-monitor
systemctl_stop ==
    /\ host = "up"
    /\ svc # "Stopped"
    /\ svc' = "Stopped"
    /\ proc' = "none"
    /\ restartTimer' = 0
    /\ sinceWrite' = 0
    /\ lastDelay' = -1
    /\ exitCause' = "stop"
    /\ UNCHANGED << wdVars, hostVars, winVars, hb, obs, breachRun, staleSeen >>
    /\ UNCHANGED uiVars

\* menu 1: systemctl restart hospital-monitor, a stop job followed by a start
\* job; this is the stop job (a relaunch in one step would skip Stopped)
restart_monitor_direct ==
    /\ host = "up"
    /\ Launch
    /\ lastDelay' = -1
    /\ exitCause' = "none"
    /\ UNCHANGED << wdVars, hostVars, winVars, hb, obs, breachRun, staleSeen >>
    /\ UNCHANGED uiVars
restart_monitor ==
    /\ host = "up"
    /\ svc' = "Stopped"
    /\ proc' = "none"
    /\ restartTimer' = 0
    /\ sinceWrite' = 0
    /\ lastDelay' = -1
    /\ exitCause' = "restart"
    /\ UNCHANGED << wdVars, hostVars, winVars, hb, obs, breachRun, staleSeen >>
    /\ UNCHANGED uiVars

\* the start job of systemctl restart is queued behind its stop job
StartJobQueued == svc = "Stopped" /\ exitCause = "restart"

\* the start job of systemctl restart, run as soon as the unit has stopped
restart_monitor_start ==
    /\ host = "up"
    /\ StartJobQueued
    /\ Launch
    /\ lastDelay' = -1
    /\ exitCause' = "none"
    /\ UNCHANGED << wdVars, hostVars, winVars, hb, obs, breachRun, staleSeen >>
    /\ UNCHANGED uiVars

\* the process exits: a crash, or the kernel kills it at MemoryMax=768M
\* (with RemainAfterExit the unit would stay active after the exit)
ProcessExitRemain(cause) ==
    /\ host = "up"
    /\ svc = "Running"
    /\ proc # "none"
    /\ proc' = "none"
    /\ sinceWrite' = 0
    /\ UNCHANGED << svc, restartTimer, exitCause, lastDelay >>
    /\ UNCHANGED << wdVars, hostVars, winVars, hb, obs, breachRun, staleSeen >>
    /\ UNCHANGED uiVars
ProcessExit(cause) ==
    /\ host = "up"
    /\ svc = "Running"
    /\ proc # "none"
    /\ proc' = "none"
    /\ svc' = "Restarting"
    /\ restartTimer' = 0
    /\ sinceWrite' = 0
    /\ exitCause' = cause
    /\ UNCHANGED lastDelay
    /\ UNCHANGED << wdVars, hostVars, winVars, hb, obs, breachRun, staleSeen >>
    /\ UNCHANGED uiVars

\* Restart=always, RestartSec=10: relaunch once the wait is over; the policy
\* acts on a unit in auto-restart only (a policy that also relaunched a unit
\* stopped by command would undo the stop)
AutoRestartAfterStop ==
    /\ host = "up"
    /\ svc \in {"Restarting", "Stopped"}
    /\ svc = "Restarting" => AutoRestartDue
    /\ Launch
    /\ lastDelay' = restartTimer
    /\ UNCHANGED exitCause
    /\ UNCHANGED winVars
    /\ UNCHANGED << wdVars, hostVars, hb, obs, breachRun, staleSeen >>
    /\ UNCHANGED uiVars
AutoRestart ==
    /\ host = "up"
    /\ svc = "Restarting"
    /\ AutoRestartDue
    /\ Launch
    /\ lastDelay' = restartTimer
    /\ UNCHANGED exitCause
    /\ UNCHANGED observeBudget
    /\ IF ~observeBudget
       THEN UNCHANGED << winAge, winCount >>
       ELSE IF winCount = 0
            THEN winAge' = 0 /\ winCount' = 1
            ELSE winAge' = winAge /\ winCount' = winCount + 1
    /\ UNCHANGED << wdVars, hostVars, hb, obs, breachRun, staleSeen >>
    /\ UNCHANGED uiVars

\* the process wedges: still alive, no longer writing its heartbeat
Hang ==
    /\ host = "up"
    /\ svc = "Running"
    /\ proc = "ok"
    /\ proc' = "hung"
    /\ sinceWrite' = 0
    /\ UNCHANGED << svc, restartTimer, lastDelay, exitCause >>
    /\ UNCHANGED << wdVars, hostVars, winVars, hb, obs, breachRun, staleSeen >>
    /\ UNCHANGED uiVars

\* echo "$(date +%s)" > /tmp/hospital-monitor-heartbeat
FreshRecord == [exists |-> TRUE, valid |-> TRUE, age |-> 0]

\* main.py rewrites the file every 30 seconds
WriteHeartbeat ==
    /\ host = "up"
    /\ proc = "ok"
    /\ sinceWrite >= HeartbeatInterval
    /\ hb' = FreshRecord
    /\ staleSeen' = 0
    /\ sinceWrite' = 0
    /\ UNCHANGED << svc, proc, restartTimer, lastDelay, exitCause >>
    /\ UNCHANGED << wdVars, hostVars, winVars, obs, breachRun >>
    /\ UNCHANGED uiVars

\* menu 4
update_heartbeat ==
    /\ host = "up"
    /\ hb' = FreshRecord
    /\ staleSeen' = 0
    /\ UNCHANGED << wdVars, svcVars, hostVars, winVars, obs, breachRun >>
    /\ UNCHANGED uiVars

----------------------------------------------------------------------------
(* The watchdog daemon and the scripts that install, stop and start it *)

\* touch: creates an empty file, or only renews the modification time
Touch(f) == IF f.exists THEN [f EXCEPT !.age = 0]
            ELSE [exists |-> TRUE, valid |-> FALSE, age |-> 0]

\* the daemon starts with configuration c: its first check cycle is due at once
StartDaemon(c) ==
    /\ daemon' = "active"
    /\ daemonConf' = c
    /\ sincePoll' = Interval(c)
    /\ sinceRefresh' = 0
    /\ disarmedBy' = "none"

\* the daemon stops and closes /dev/watchdog; a daemon that was killed is
\* no longer there to close it
StopDaemon(by) ==
    /\ IF daemon = "killed"
       THEN UNCHANGED << daemon, sincePoll, sinceRefresh >>
       ELSE /\ daemon' = "inactive"
            /\ sincePoll' = 0
            /\ sinceRefresh' = 0
    /\ disarmedBy' = IF daemon = "active" THEN by ELSE disarmedBy
    /\ UNCHANGED daemonConf

\* the daemon is killed (kill -9, crash): nobody feeds /dev/watchdog any more
\* and nobody has closed it
DaemonKilled ==
    /\ host = "up"
    /\ daemon = "active"
    /\ daemon' = "killed"
    /\ sincePoll' = 0
    /\ UNCHANGED << wdconf, daemonConf, daemonEnabled, sinceRefresh,
                    disarmedBy >>
    /\ UNCHANGED << svcVars, hostVars, winVars, hb, obs, breachRun, staleSeen >>
    /\ UNCHANGED uiVars

\* deploy/setup-watchdog.sh: write the configuration, enable, systemctl start
\* (a daemon already running keeps the configuration it read)
setup_watchdog_deploy ==
    /\ host = "up"
    /\ wdconf' = "deploy"
    /\ daemonEnabled' = TRUE
    /\ IF daemon = "active"
       THEN UNCHANGED << daemon, daemonConf, sincePoll, sinceRefresh,
                         disarmedBy >>
       ELSE StartDaemon("deploy")
    /\ UNCHANGED << svcVars, hostVars, winVars, hb, obs, breachRun, staleSeen >>
    /\ UNCHANGED uiVars

\* setup-watchdog.sh: write the configuration, touch the heartbeat file,
\* enable, systemctl restart
setup_watchdog ==
    /\ host = "up"
    /\ wdconf' = "new"
    /\ hb' = Touch(hb)
    /\ daemonEnabled' = TRUE
    /\ staleSeen' = 0
    /\ StartDaemon("new")
    /\ UNCHANGED << svcVars, hostVars, winVars, obs, breachRun >>
    /\ UNCHANGED uiVars

\* setup-resilience.sh: systemctl stop watchdog; systemctl disable watchdog;
\* rewrite hospital-monitor.service with the same restart policy
setup_resilience ==
    /\ host = "up"
    /\ StopDaemon("setup-resilience")
    /\ daemonEnabled' = FALSE
    /\ UNCHANGED wdconf
    /\ UNCHANGED << svcVars, hostVars, winVars, hb, obs, breachRun, staleSeen >>
    /\ UNCHANGED uiVars

Answers == {"s", "S", "n", ""}
Confirmed(answer) == answer = "s" \/ answer = "S"

\* menu 7: read -p "Tem certeza? (s/N): "
disable_watchdog(confirm) ==
    /\ host = "up"
    /\ IF Confirmed(confirm)
       THEN StopDaemon("confirmed")
       ELSE UNCHANGED << daemon, daemonConf, sincePoll, sinceRefresh,
                         disarmedBy >>
    /\ UNCHANGED << wdconf, daemonEnabled >>
    /\ UNCHANGED << svcVars, hostVars, winVars, hb, obs, breachRun, staleSeen >>
    /\ UNCHANGED uiVars

\* menu 8: systemctl start watchdog 2>/dev/null || true
enable_watchdog ==
    /\ host = "up"
    /\ IF wdconf # "none" /\ daemon # "active"
       THEN StartDaemon(wdconf)
       ELSE UNCHANGED << daemon, daemonConf, sincePoll, sinceRefresh,
                         disarmedBy >>
    /\ UNCHANGED << wdconf, daemonEnabled >>
    /\ UNCHANGED << svcVars, hostVars, winVars, hb, obs, breachRun, staleSeen >>
    /\ UNCHANGED uiVars

\* one check cycle of the daemon: sample load and memory, test the heartbeat
\* file and the pid file, then reboot or feed /dev/watchdog
Poll(load, free) ==
    /\ host = "up"
    /\ daemon = "active"
    /\ sincePoll >= Interval(daemonConf)
    /\ LET o == Observe(hb, ChangeInUse)
           p == Breach(load, free)
           k == PidOk(daemonConf, proc)
           r == RebootDecision(o.class, p, k)
       IN  /\ IF observeBudget
              THEN UNCHANGED << obs, breachRun, staleSeen >>
              ELSE /\ obs' = [polled |-> TRUE, absent |-> o.absent,
                              valid |-> hb.valid, inf |-> o.inf,
                              age |-> o.age, class |-> o.class,
                              change |-> ChangeInUse, load |-> load,
                              free |-> free, pressure |-> p, pidok |-> k,
                              reboot |-> r,
                              interval |-> Interval(daemonConf),
                              haspid |-> HasPidfile(daemonConf)]
                   /\ breachRun' = IF p THEN breachRun + 1 ELSE 0
                   /\ staleSeen' = IF o.class = "Stale" /\ ~o.absent
                                   THEN Min(staleSeen + 1, MaxStaleSeen)
                                   ELSE staleSeen
           /\ IF r
              THEN /\ host' = "reset"
                   /\ resetCause' = "daemon"
                   /\ UNCHANGED sinceRefresh
              ELSE /\ sinceRefresh' = 0
                   /\ UNCHANGED << host, resetCause >>
    /\ sincePoll' = 0
    /\ UNCHANGED << wdconf, daemonConf, daemon, daemonEnabled, disarmedBy >>
    /\ UNCHANGED << svcVars, winVars, hb >>
    /\ UNCHANGED uiVars

----------------------------------------------------------------------------
(* The host *)

\* the kernel hangs: no task runs any more (their timers no longer count),
\* only the hardware timer keeps counting
KernelFreeze ==
    /\ host = "up"
    /\ host' = "frozen"
    /\ sincePoll' = 0
    /\ sinceWrite' = 0
    /\ restartTimer' = 0
    /\ lastDelay' = -1
    /\ exitCause' = "none"
    /\ winAge' = 0
    /\ winCount' = 0
    /\ breachRun' = 0
    /\ obs' = NoObs
    /\ UNCHANGED << wdconf, daemonConf, daemon, daemonEnabled, sinceRefresh,
                    disarmedBy, svc, proc, resetCause, hb, observeBudget,
                    staleSeen >>
    /\ UNCHANGED uiVars

\* watchdog-timeout = 15: not fed for 15 s, the hardware resets the host
HwTimerExpire ==
    /\ host \in {"up", "frozen"}
    /\ Armed
    /\ sinceRefresh >= WatchdogTimeout
    /\ host' = "reset"
    /\ resetCause' = "hwtimer"
    /\ UNCHANGED << wdVars, svcVars, winVars, hb, obs, breachRun, staleSeen >>
    /\ UNCHANGED uiVars

\* boot: enabled units start (hospital-monitor is enabled by install.sh)
Boot ==
    /\ host = "reset"
    /\ host' = "up"
    /\ resetCause' = "none"
    /\ IF daemonEnabled
       THEN StartDaemon(wdconf)
       ELSE /\ daemon' = "inactive"
            /\ sincePoll' = 0
            /\ sinceRefresh' = 0
            /\ UNCHANGED << daemonConf, disarmedBy >>
    /\ Launch
    /\ lastDelay' = -1
    /\ exitCause' = "none"
    /\ winAge' = 0
    /\ winCount' = 0
    /\ breachRun' = 0
    /\ obs' = NoObs
    /\ UNCHANGED << wdconf, daemonEnabled, hb, observeBudget, staleSeen >>
    /\ UNCHANGED uiVars

\* Quantum seconds pass; no due step of a running task is passed over
Tick ==
    /\ host \in {"up", "frozen"}
    /\ Armed => sinceRefresh < WatchdogTimeout
    /\ host = "up" =>
          /\ svc # "Starting"
          /\ ~StartJobQueued
          /\ daemon = "active" => sincePoll < Interval(daemonConf)
          /\ proc = "ok" => sinceWrite < HeartbeatInterval
          /\ svc = "Restarting" => ~AutoRestartDue
    /\ hb' = IF hb.exists THEN [hb EXCEPT !.age = Min(@ + Quantum, MaxAge)]
             ELSE hb
    /\ sinceRefresh' = IF daemon # "inactive"
                       THEN Min(sinceRefresh + Quantum, MaxAge) ELSE 0
    /\ sincePoll' = IF daemon = "active" /\ host = "up"
                    THEN sincePoll + Quantum ELSE sincePoll
    /\ sinceWrite' = IF proc = "ok" /\ host = "up"
                     THEN sinceWrite + Quantum ELSE sinceWrite
    /\ restartTimer' = IF svc = "Restarting" /\ host = "up"
                       THEN Min(restartTimer + Quantum, MaxAge)
                       ELSE restartTimer
    /\ IF winCount > 0 /\ winAge + Quantum < windowDuration
       THEN winAge' = winAge + Quantum /\ UNCHANGED winCount
       ELSE winAge' = 0 /\ winCount' = 0
    /\ obs' = NoObs
    /\ UNCHANGED << wdconf, daemonConf, daemon, daemonEnabled, disarmedBy,
                    svc, proc, lastDelay, exitCause, hostVars, breachRun,
                    observeBudget, staleSeen >>
    /\ UNCHANGED uiVars

----------------------------------------------------------------------------
Next ==
    \/ systemctl_start
    \/ StartComplete
    \/ systemctl_stop
    \/ restart_monitor
    \/ restart_monitor_start
    \/ \E cause \in ExitCauses : ProcessExit(cause)
    \/ AutoRestart
    \/ Hang
    \/ WriteHeartbeat
    \/ update_heartbeat
    \/ setup_watchdog_deploy
    \/ setup_watchdog
    \/ setup_resilience
    \/ \E confirm \in Answers : disable_watchdog(confirm)
    \/ enable_watchdog
    \/ \E load \in Loads, free \in Frees : Poll(load, free)
    \/ DaemonKilled
    \/ KernelFreeze
    \/ HwTimerExpire
    \/ Boot
    \/ Tick

Spec == Init /\ [][Next]_vars

SpecBudget == InitBudget /\ [][Next]_vars

\* the system clock is set back (date -s, a time synchronisation step): the
\* stamp of the heartbeat record, taken from the clock when it was written
\* (date +%s, the file's modification time), now lies further ahead
ClockSetBack ==
    /\ host = "up"
    /\ hb.exists
    /\ hb.age - Quantum >= 0 - MaxSkew
    /\ hb' = [hb EXCEPT !.age = @ - Quantum]
    /\ UNCHANGED << wdVars, svcVars, hostVars, winVars, obs, breachRun,
                    staleSeen >>
    /\ UNCHANGED uiVars

NextClock ==
    \/ Next
    \/ ClockSetBack

SpecClock == Init /\ [][NextClock]_vars

\* systemd, the daemon, the process and the hardware take their due steps;
\* time keeps passing; the operator's actions are under no obligation
Fairness ==
    /\ WF_vars(StartComplete)
    /\ WF_vars(restart_monitor_start)
    /\ WF_vars(AutoRestart)
    /\ WF_vars(WriteHeartbeat)
    /\ WF_vars(\E load \in Loads, free \in Frees : Poll(load, free))
    /\ WF_vars(HwTimerExpire)
    /\ WF_vars(Boot)
    /\ SF_vars(Tick)

SpecLive == Init /\ [][Next]_vars /\ Fairness

----------------------------------------------------------------------------
(* The SystemSettings component and the backend's /settings *)

\* useEffect -> loadSettings: GET /settings answered
loadSettings ==
    /\ settingsPage.loading
    /\ settingsPage' = [settingsPage EXCEPT !.isNull = FALSE,
                                            !.settings = backend.settings,
                                            !.loading = FALSE]
    /\ UNCHANGED << supVars, backend, passwordPage, restVars >>

\* GET /settings failed: toast, settings stays null
loadSettings_failed ==
    /\ settingsPage.loading
    /\ settingsPage' = [settingsPage EXCEPT !.toast = "Erro ao carregar",
                                            !.loading = FALSE]
    /\ UNCHANGED << supVars, backend, passwordPage, restVars >>

handleBoolChange(field, value) ==
    /\ ~settingsPage.loading
    /\ settingsPage' = IF ~settingsPage.isNull
                       THEN [settingsPage EXCEPT !.settings[field] = value]
                       ELSE settingsPage
    /\ UNCHANGED << supVars, backend, passwordPage, restVars >>

handleNumberChangeUnchecked(field, value) ==
    /\ ~settingsPage.loading
    /\ settingsPage' =
          IF ~settingsPage.isNull
          THEN [settingsPage EXCEPT !.settings[field] = parseFloat(value)]
          ELSE settingsPage
    /\ UNCHANGED << supVars, backend, passwordPage, restVars >>
handleNumberChange(field, value) ==
    /\ ~settingsPage.loading
    /\ settingsPage' =
          IF ~settingsPage.isNull
          THEN LET numValue == parseFloat(value)
               IN  IF ~isNaN(numValue)
                   THEN [settingsPage EXCEPT !.settings[field] = numValue]
                   ELSE settingsPage
          ELSE settingsPage
    /\ UNCHANGED << supVars, backend, passwordPage, restVars >>

\* the submit button is disabled while saving; saveSettings(settings) posts
\* the whole settings object
handleSubmit ==
    /\ ~settingsPage.loading
    /\ ~settingsPage.isNull
    /\ ~settingsPage.saving
    /\ settingsPage' =
          [settingsPage EXCEPT !.saving = TRUE,
                               !.pending = [some |-> TRUE,
                                            body |-> settingsPage.settings]]
    /\ UNCHANGED << supVars, backend, passwordPage, restVars >>

\* POST /settings accepted: the posted settings are in effect
saveSettings_ok ==
    /\ settingsPage.pending.some
    /\ SettingsValid(settingsPage.pending.body)
    /\ backend' = [backend EXCEPT !.settings = settingsPage.pending.body]
    /\ settingsPage' = [settingsPage EXCEPT !.saving = FALSE,
                                            !.pending = NoRequest,
                                            !.toast = "Sucesso"]
    /\ UNCHANGED << supVars, passwordPage, restVars >>

\* POST /settings refused (invalid settings, or any other HTTP error):
\* apiRequest throws, the settings in effect stay as they were
saveSettings_rejected ==
    /\ settingsPage.pending.some
    /\ settingsPage' = [settingsPage EXCEPT !.saving = FALSE,
                                            !.pending = NoRequest,
                                            !.toast = "Erro ao salvar"]
    /\ UNCHANGED << supVars, backend, passwordPage, restVars >>

NextSettings ==
    \/ loadSettings
    \/ loadSettings_failed
    \/ \E field \in BoolFields, value \in BOOLEAN :
          handleBoolChange(field, value)
    \/ \E field \in NumberFields, value \in Inputs :
          handleNumberChange(field, value)
    \/ handleSubmit
    \/ saveSettings_ok
    \/ saveSettings_rejected

SpecSettings == Init /\ [][NextSettings]_vars

----------------------------------------------------------------------------
(* The PasswordChange component *)

setCurrentPassword(value) ==
    /\ passwordPage' = [passwordPage EXCEPT !.currentPassword = value]
    /\ UNCHANGED << supVars, settingsPage, backend, restVars >>

setNewPassword(value) ==
    /\ passwordPage' = [passwordPage EXCEPT !.newPassword = value]
    /\ UNCHANGED << supVars, settingsPage, backend, restVars >>

setConfirmPassword(value) ==
    /\ passwordPage' = [passwordPage EXCEPT !.confirmPassword = value]
    /\ UNCHANGED << supVars, settingsPage, backend, restVars >>

\* newPassword.length < 6
TooShortLax(newPassword) == Len(newPassword) < 5
TooShort(newPassword) == Len(newPassword) < 6

\* the submit button is disabled while saving
PasswordChange_handleSubmit ==
    /\ ~passwordPage.saving
    /\ passwordPage' =
          IF passwordPage.newPassword # passwordPage.confirmPassword
          THEN [passwordPage EXCEPT !.toast = "As senhas nao coincidem"]
          ELSE IF TooShort(passwordPage.newPassword)
          THEN [passwordPage EXCEPT
                   !.toast = "A nova senha deve ter pelo menos 6 caracteres"]
          ELSE [passwordPage EXCEPT
                   !.saving = TRUE,
                   !.pending =
                       [some |-> TRUE,
                        current_password |-> passwordPage.currentPassword,
                        new_password |-> passwordPage.newPassword]]
    /\ UNCHANGED << supVars, settingsPage, backend, restVars >>

\* POST /auth/password answered ok: toast, the three fields are emptied
changePassword_ok ==
    /\ passwordPage.pending.some
    /\ passwordPage' = [passwordPage EXCEPT !.toast = "Sucesso",
                                            !.currentPassword = "",
                                            !.newPassword = "",
                                            !.confirmPassword = "",
                                            !.saving = FALSE,
                                            !.pending = NoPasswordRequest]
    /\ UNCHANGED << supVars, settingsPage, backend, restVars >>

\* POST /auth/password refused: apiRequest throws, toast only
changePassword_failed ==
    /\ passwordPage.pending.some
    /\ passwordPage' = [passwordPage EXCEPT !.toast = "Erro ao alterar senha",
                                            !.saving = FALSE,
                                            !.pending = NoPasswordRequest]
    /\ UNCHANGED << supVars, settingsPage, backend, restVars >>

NextPassword ==
    \/ \E value \in CurrentPasswords : setCurrentPassword(value)
    \/ \E value \in Passwords : setNewPassword(value)
    \/ \E value \in Passwords : setConfirmPassword(value)
    \/ PasswordChange_handleSubmit
    \/ changePassword_ok
    \/ changePassword_failed

SpecPassword == Init /\ [][NextPassword]_vars

----------------------------------------------------------------------------
(* The Home page, the Dashboard and the views it opens *)

outsideWeb == << supVars, installFs >>

\* checkAuth().then(({ authenticated }) => setAuthenticated(authenticated))
checkAuth_ok(answer) ==
    /\ homePage.check = "pending"
    /\ homePage' = [authenticated |-> answer, check |-> answer]
    /\ dashboard' = IF answer = "true" THEN InitDashboard ELSE dashboard
    /\ UNCHANGED << outsideWeb, logViewer, settingsPage, backend, passwordPage >>

\* .catch(() => setAuthenticated(false)): the request failed or was refused
checkAuth_failed_open ==
    /\ homePage.check = "pending"
    /\ homePage' = [authenticated |-> "true", check |-> "failed"]
    /\ dashboard' = InitDashboard
    /\ UNCHANGED << outsideWeb, logViewer, settingsPage, backend, passwordPage >>
checkAuth_failed ==
    /\ homePage.check = "pending"
    /\ homePage' = [authenticated |-> "false", check |-> "failed"]
    /\ UNCHANGED dashboard
    /\ UNCHANGED << outsideWeb, logViewer, settingsPage, backend, passwordPage >>

\* <LoginForm onSuccess={() => setAuthenticated(true)} />: a login succeeded
LoginForm_onSuccess ==
    /\ LoginFormRendered
    /\ homePage' = [homePage EXCEPT !.authenticated = "true"]
    /\ dashboard' = InitDashboard
    /\ UNCHANGED << outsideWeb, logViewer, settingsPage, backend, passwordPage >>

\* loadData: the four GETs of Promise.all answered
loadData_ok ==
    /\ dashboard.mounted
    /\ dashboard.loads > 0
    /\ dashboard' =
          [dashboard EXCEPT !.config = "loaded",
                            !.settings = [isNull |-> FALSE,
                                          value |-> backend.settings],
                            !.loading = FALSE,
                            !.loads = @ - 1]
    /\ UNCHANGED << outsideWeb, logViewer, settingsPage, backend, passwordPage, homePage >>

\* loadData: one of the four GETs failed; nothing is set
loadData_failed ==
    /\ dashboard.mounted
    /\ dashboard.loads > 0
    /\ dashboard' = [dashboard EXCEPT !.toast = "Erro ao carregar dados",
                                      !.loading = FALSE,
                                      !.loads = @ - 1]
    /\ UNCHANGED << outsideWeb, logViewer, settingsPage, backend, passwordPage, homePage >>

\* onClick={() => setView(v)} of a card; the view's component is mounted
setView(v) ==
    /\ CardsShown
    /\ v # "dashboard"
    /\ v = "images" => ImagesCardShown
    /\ dashboard' = [dashboard EXCEPT !.view = v]
    /\ settingsPage' = IF v = "settings" THEN InitSettingsPage
                        ELSE settingsPage
    /\ passwordPage' = IF v = "password" THEN InitPasswordPage
                        ELSE passwordPage
    /\ logViewer' = IF v = "logs" THEN InitLogViewer ELSE logViewer
    /\ UNCHANGED << outsideWeb, backend, homePage >>

\* <DeviceConfig initialConfig={config!}: it renders config.environment_id
DeviceConfigRendered ==
    /\ dashboard.mounted /\ ~dashboard.loading /\ dashboard.view = "device"
    /\ dashboard.config # "null"

\* onBack of a view: setView('dashboard'), and loadData() for DeviceConfig
onBack(v) ==
    /\ dashboard.mounted /\ ~dashboard.loading
    /\ v # "dashboard" /\ dashboard.view = v
    /\ IF v = "device"
       THEN /\ DeviceConfigRendered
            /\ dashboard.loads + dashboard.timers < MaxLoads
            /\ dashboard' = [dashboard EXCEPT !.view = "dashboard",
                                              !.loads = @ + 1]
       ELSE dashboard' = [dashboard EXCEPT !.view = "dashboard"]
    /\ UNCHANGED << outsideWeb, logViewer, settingsPage, backend, passwordPage, homePage >>

\* the button is disabled while restarting
handleRestart ==
    /\ CardsShown
    /\ ~dashboard.restarting
    /\ dashboard' = [dashboard EXCEPT !.restarting = TRUE]
    /\ UNCHANGED << outsideWeb, logViewer, settingsPage, backend, passwordPage, homePage >>

\* POST /system/restart answered: toast, setTimeout(loadData, 2000)
restartService_ok(success) ==
    /\ dashboard.mounted
    /\ dashboard.restarting
    /\ dashboard.loads + dashboard.timers < MaxLoads
    /\ dashboard' = [dashboard EXCEPT
                         !.toast = IF success THEN "Sucesso" ELSE "Erro",
                         !.timers = @ + 1,
                         !.restarting = FALSE]
    /\ UNCHANGED << outsideWeb, logViewer, settingsPage, backend, passwordPage, homePage >>

restartService_failed ==
    /\ dashboard.mounted
    /\ dashboard.restarting
    /\ dashboard' = [dashboard EXCEPT !.toast = "Erro ao reiniciar",
                                      !.restarting = FALSE]
    /\ UNCHANGED << outsideWeb, logViewer, settingsPage, backend, passwordPage, homePage >>

\* the timer of handleRestart fires: loadData()
setTimeout_loadData ==
    /\ dashboard.mounted
    /\ dashboard.timers > 0
    /\ dashboard' = [dashboard EXCEPT !.timers = @ - 1, !.loads = @ + 1]
    /\ UNCHANGED << outsideWeb, logViewer, settingsPage, backend, passwordPage, homePage >>

\* handleLogout: await logout()
handleLogout ==
    /\ CardsShown
    /\ ~dashboard.loggingOut
    /\ dashboard' = [dashboard EXCEPT !.loggingOut = TRUE]
    /\ UNCHANGED << outsideWeb, logViewer, settingsPage, backend, passwordPage, homePage >>

\* onLogout(): setAuthenticated(false); the Dashboard is unmounted
logout_ok ==
    /\ dashboard.mounted
    /\ dashboard.loggingOut
    /\ homePage' = [homePage EXCEPT !.authenticated = "false"]
    /\ dashboard' = NoDashboard
    /\ UNCHANGED << outsideWeb, logViewer, settingsPage, backend, passwordPage >>

logout_failed ==
    /\ dashboard.mounted
    /\ dashboard.loggingOut
    /\ dashboard' = [dashboard EXCEPT !.toast = "Erro ao sair",
                                      !.loggingOut = FALSE]
    /\ UNCHANGED << outsideWeb, logViewer, settingsPage, backend, passwordPage, homePage >>

\* the SystemSettings component is on screen
SettingsRendered ==
    dashboard.mounted /\ ~dashboard.loading /\ dashboard.view = "settings"

\* what is typed into which number field while the Dashboard is followed
DashboardFields == {"EMA_ALPHA"}
DashboardInputs == { << "5" >> }

NextWeb ==
    \/ \E answer \in AuthAnswers : checkAuth_ok(answer)
    \/ checkAuth_failed
    \/ LoginForm_onSuccess
    \/ loadData_ok
    \/ loadData_failed
    \/ \E v \in Views : setView(v)
    \/ \E v \in Views : onBack(v)
    \/ handleRestart
    \/ \E success \in BOOLEAN : restartService_ok(success)
    \/ restartService_failed
    \/ setTimeout_loadData
    \/ handleLogout
    \/ logout_ok
    \/ logout_failed
    \/ SettingsRendered /\ loadSettings
    \/ SettingsRendered /\ loadSettings_failed
    \/ SettingsRendered /\ \E field \in BoolFields, value \in BOOLEAN :
                               handleBoolChange(field, value)
    \/ SettingsRendered /\ \E field \in DashboardFields,
                               value \in DashboardInputs :
                               handleNumberChange(field, value)
    \/ SettingsRendered /\ handleSubmit
    \/ saveSettings_ok
    \/ saveSettings_rejected

SpecWeb == Init /\ [][NextWeb]_vars

----------------------------------------------------------------------------
(* The LogViewer *)

outsideLogs ==
    << supVars, settingsPage, backend, passwordPage, installFs, homePage,
       dashboard >>

\* if (view === 'logs') return <LogViewer onBack=... />
LogViewerRendered ==
    dashboard.mounted /\ ~dashboard.loading /\ dashboard.view = "logs"

\* const totalPages = Math.ceil(totalLines / ENTRIES_PER_PAGE)
totalPages(lv) == (lv.totalLines + ENTRIES_PER_PAGE - 1) \div ENTRIES_PER_PAGE

\* useEffect(() => { loadLogs() }, [loadLogs]): after a render in which a
\* dependency of the useCallback changed, the new loadLogs is called
useEffect_loadLogs(old, new) ==
    IF CurrentRequest(new) # CurrentRequest(old) THEN loadLogs(new, new)
    ELSE new

\* an event handler ran: the state it set is rendered and the effect runs
Handled(new, calls) ==
    /\ LogViewerRendered
    /\ Len(logViewer.requests) + calls <= MaxInFlight
    /\ logViewer' = useEffect_loadLogs(logViewer, new)
    /\ UNCHANGED outsideLogs

\* getLogs answered request i: setEntries, setTotalLines, setLoading(false)
getLogs_ok(i) ==
    /\ LogViewerRendered
    /\ i \in 1..Len(logViewer.requests)
    /\ LET request == logViewer.requests[i]
       IN  logViewer' =
              [logViewer EXCEPT
                  !.entries = request,
                  !.totalLines = total_lines(request),
                  !.loading = FALSE,
                  !.requests = SubSeq(@, 1, i - 1) \o SubSeq(@, i + 1, Len(@))]
    /\ UNCHANGED outsideLogs

\* getLogs threw for request i: toast, setLoading(false)
getLogs_failed(i) ==
    /\ LogViewerRendered
    /\ i \in 1..Len(logViewer.requests)
    /\ logViewer' =
          [logViewer EXCEPT
              !.toast = "Erro ao carregar logs",
              !.loading = FALSE,
              !.requests = SubSeq(@, 1, i - 1) \o SubSeq(@, i + 1, Len(@))]
    /\ UNCHANGED outsideLogs

\* loadLogFiles: setLogFiles(data.files)
getLogFiles_ok ==
    /\ LogViewerRendered
    /\ logViewer.logFiles = "pending"
    /\ logViewer' = [logViewer EXCEPT !.logFiles = "loaded"]
    /\ UNCHANGED outsideLogs

\* loadLogFiles: catch, "Silently fail, not critical"
getLogFiles_failed ==
    /\ LogViewerRendered
    /\ logViewer.logFiles = "pending"
    /\ logViewer' = [logViewer EXCEPT !.logFiles = "empty"]
    /\ UNCHANGED outsideLogs

\* onClick={() => setShowFilters(!showFilters)}
setShowFilters ==
    /\ LogViewerRendered
    /\ Handled([logViewer EXCEPT !.showFilters = ~@], 0)

\* handleFileChange: the file buttons exist once the files are listed
handleFileChange(file) ==
    /\ logViewer.logFiles = "loaded"
    /\ Handled([logViewer EXCEPT !.selectedFile = file, !.currentPage = 0], 1)

\* onChange={(e) => { setLevelFilter(e.target.value); setCurrentPage(0); }}
setLevelFilter(value) ==
    /\ logViewer.showFilters
    /\ value # logViewer.levelFilter
    /\ Handled([logViewer EXCEPT !.levelFilter = value, !.currentPage = 0], 1)

\* onChange={(e) => { setCategoryFilter(e.target.value); setCurrentPage(0); }}
setCategoryFilter(value) ==
    /\ logViewer.showFilters
    /\ value # logViewer.categoryFilter
    /\ Handled([logViewer EXCEPT !.categoryFilter = value,
                                 !.currentPage = 0], 1)

\* onChange={(e) => setSearchText(e.target.value)}
setSearchText(value) ==
    /\ logViewer.showFilters
    /\ value # logViewer.searchText
    /\ Handled([logViewer EXCEPT !.searchText = value], 1)

\* handleSearch: setCurrentPage(0); loadLogs() -- the loadLogs of the render
\* the handler belongs to, which closed over the page shown
handleSearch ==
    /\ logViewer.showFilters
    /\ Handled([loadLogs(logViewer, logViewer) EXCEPT !.currentPage = 0], 2)

\* clearFilters: the button is rendered while a filter is set
clearFilters ==
    /\ logViewer.showFilters
    /\ \/ logViewer.levelFilter # ""
       \/ logViewer.categoryFilter # ""
       \/ logViewer.searchText # ""
    /\ Handled([logViewer EXCEPT !.levelFilter = "", !.categoryFilter = "",
                                 !.searchText = "", !.currentPage = 0], 1)

\* the refresh button: onClick={loadLogs} disabled={loading}
Refresh ==
    /\ ~logViewer.loading
    /\ Handled(loadLogs(logViewer, logViewer), 1)

\* Anterior: setCurrentPage(p => Math.max(0, p - 1))
Anterior ==
    /\ totalPages(logViewer) > 1
    /\ ~(logViewer.currentPage = 0 \/ logViewer.loading)
    /\ Handled([logViewer EXCEPT
                   !.currentPage = IF @ - 1 > 0 THEN @ - 1 ELSE 0], 1)

\* Proximo: setCurrentPage(p => Math.min(totalPages - 1, p + 1))
Proximo ==
    /\ totalPages(logViewer) > 1
    /\ ~(logViewer.currentPage >= totalPages(logViewer) - 1
         \/ logViewer.loading)
    /\ Handled([logViewer EXCEPT
                   !.currentPage = IF totalPages(logViewer) - 1 < @ + 1
                                   THEN totalPages(logViewer) - 1
                                   ELSE @ + 1], 1)

NextLogs ==
    \/ checkAuth_ok("true")
    \/ loadData_ok
    \/ setView("logs")
    \/ onBack("logs")
    \/ \E i \in 1..MaxInFlight : getLogs_ok(i)
    \/ \E i \in 1..MaxInFlight : getLogs_failed(i)
    \/ getLogFiles_ok
    \/ getLogFiles_failed
    \/ setShowFilters
    \/ \E file \in LogFileNames : handleFileChange(file)
    \/ \E value \in Levels : setLevelFilter(value)
    \/ \E value \in Categories : setCategoryFilter(value)
    \/ \E value \in SearchTexts : setSearchText(value)
    \/ handleSearch
    \/ clearFilters
    \/ Refresh
    \/ Anterior
    \/ Proximo

SpecLogs == Init /\ [][NextLogs]_vars

----------------------------------------------------------------------------
(* The installation scripts *)

\* deploy/install.sh run from a source tree that holds release version, the
\* files srcData under data/, and config/environment.json (srcEnv) and
\* config/environment.example.json (srcExample) or not
install_sh(version, srcData, srcEnv, srcExample) ==
    LET copy == IF ~EnvMissing(installFs.env) THEN "none"
                ELSE IF srcEnv THEN "bundled"
                ELSE IF srcExample THEN "example"
                ELSE "none"
    IN  /\ installFs' =
              [env |-> IF copy # "none" THEN copy ELSE installFs.env,
               data |-> CopyNoClobber(installFs.data, srcData),
               code |-> version,
               run |-> [script |-> "deploy/install.sh", srcData |-> srcData,
                        srcEnv |-> srcEnv, srcExample |-> srcExample,
                        beforeEnv |-> installFs.env,
                        beforeData |-> installFs.data,
                        copied |-> copy, aborted |-> FALSE]]
        /\ UNCHANGED << supVars, settingsPage, backend, passwordPage, pageVars >>

\* the earlier install.sh: no data/ step, only the example configuration;
\* under set -e a failing cp ends the script
install_sh_example(version, srcExample) ==
    LET missing == EnvMissing(installFs.env)
        copy == IF missing /\ srcExample THEN "example" ELSE "none"
    IN  /\ installFs' =
              [env |-> IF copy # "none" THEN copy ELSE installFs.env,
               data |-> installFs.data,
               code |-> version,
               run |-> [script |-> "install.sh", srcData |-> {},
                        srcEnv |-> FALSE, srcExample |-> srcExample,
                        beforeEnv |-> installFs.env,
                        beforeData |-> installFs.data,
                        copied |-> copy,
                        aborted |-> missing /\ ~srcExample]]
        /\ UNCHANGED << supVars, settingsPage, backend, passwordPage, pageVars >>

\* sudo nano $CONFIG_DIR/environment.json
edit_environment ==
    /\ installFs' = [installFs EXCEPT !.env = "site", !.run = NoRun]
    /\ UNCHANGED << supVars, settingsPage, backend, passwordPage, pageVars >>

NextInstall ==
    \/ \E version \in Versions, srcData \in SUBSET DataFiles,
          srcEnv \in BOOLEAN, srcExample \in BOOLEAN :
          install_sh(version, srcData, srcEnv, srcExample)
    \/ \E version \in Versions, srcExample \in BOOLEAN :
          install_sh_example(version, srcExample)
    \/ edit_environment

\* the script is run on a host in any state earlier runs and the service
\* left it in
InitInstall ==
    /\ InitForms
    /\ InitSupervision
    /\ observeBudget = FALSE
    /\ installFs \in FsStates
    /\ InitPages

SpecInstall == InitInstall /\ [][NextInstall]_vars

----------------------------------------------------------------------------
(* Properties *)

C2_Original ==
    obs.polled /\ (obs.absent \/ ~obs.valid) =>
        obs.class = "Stale" /\ obs.inf

\* C2 as amended: an absent record is classified Stale with infinite age and
\* the cycle completes with its decision; a record that exists is classified
\* by its modification age alone, so an empty or malformed record modified
\* within the window is Fresh.
C2_AbsentStaleContentIgnored ==
    obs.polled =>
        /\ obs.absent => obs.class = "Stale" /\ obs.inf /\ obs.reboot
        /\ ~obs.absent /\ ~obs.valid /\ obs.age <= obs.change =>
               obs.class = "Fresh" /\ ~obs.inf

C2_Witness ==
    obs.polled /\ obs.absent /\ obs.class = "Stale" /\ host = "reset"

\* C3: every watchdog configuration a deployment script writes has a check
\* interval strictly below half the hardware timeout.
C3_RefreshCadence ==
    wdconf # "none" => 2 * Interval(wdconf) < WatchdogTimeout

C5_Original == winCount <= maxRestartsPerWindow

\* C5 as amended: there is no restart budget; every exit of the service is
\* followed by a relaunch exactly RestartSec after it, never at once and
\* never deferred to a window rollover.
C5_RestartAfterRestartSec ==
    /\ svc = "Restarting" /\ host = "up" => restartTimer <= RestartSec
    /\ lastDelay # -1 => lastDelay = RestartSec

C5_Witness ==
    lastDelay = RestartSec /\ winCount = maxRestartsPerWindow + 1

\* C6 as stated, for the smallest debounce count that debounces (2):
\* pressure is reported only when the last two samples both breach.
C6_Original == obs.polled /\ obs.pressure => breachRun >= 2

\* C6 as amended: there is no debounce; pressure is reported for a sample
\* exactly when that one sample breaches (load above max-load-1 or free
\* pages below min-memory), and a sample that does not breach leaves no
\* breach count behind.
C6_NoDebounce ==
    obs.polled =>
        /\ obs.pressure <=> (obs.load > MaxLoad1 \/ obs.free < MinMemory)
        /\ ~obs.pressure => breachRun = 0

C6_Witness == obs.polled /\ obs.pressure /\ breachRun = 1

\* C7 as stated: a reset is decided only on two signals together, a
\* degradation of the service (Stale heartbeat or process gone) and resource
\* pressure; neither alone causes it.
C7_Original ==
    host = "reset" /\ resetCause = "daemon" =>
        obs.pressure /\ (obs.class = "Stale" \/ ~obs.pidok)

\* C7 as amended: with the daemon active a reboot is ordered in the very
\* cycle in which any one test fails (heartbeat Stale, load or memory breach,
\* monitored process not running), without a process-level restart first;
\* with the daemon stopped none of them causes a reset.
C7_SingleSignalReboot ==
    /\ obs.polled =>
          ((host = "reset" /\ resetCause = "daemon")
              <=> (obs.class = "Stale" \/ obs.pressure \/ ~obs.pidok))
    /\ host = "reset" /\ resetCause = "daemon" =>
          obs.polled /\ daemon = "active"

C7_Witness ==
    /\ host = "reset" /\ resetCause = "daemon"
    /\ obs.class = "Stale" /\ ~obs.pressure /\ obs.pidok /\ ~obs.absent

\* C8: the watchdog is stopped only by the operator action that asks for and
\* receives an explicit confirmation.
C8_ConfirmedDisarmOnly == disarmedBy \in {"none", "confirmed"}

\* the daemon was started and has not yet run its first check cycle
JustStarted == sinceRefresh = 0 /\ sincePoll >= Interval(daemonConf)

\* C9 as stated: in every configuration, a running process that stopped
\* updating its record is answered within heartbeatStaleSeconds plus one
\* polling interval.
C9_Original ==
    host = "up" /\ wdconf # "none" /\ svc = "Running" /\ proc = "hung" =>
        hb.age <= Change(wdconf) + Interval(wdconf)

\* C9 as amended: with the watchdog daemon active, a record that is no
\* longer updated is answered by a reboot ordered no later than change plus
\* interval seconds after its last update; with the daemon stopped a hung
\* but live process is never detected.
C9_DaemonDetectsHang ==
    host = "up" /\ daemon = "active" /\ ~JustStarted =>
        hb.exists /\ hb.age <= Change(daemonConf) + Interval(daemonConf)

C9_Witness ==
    /\ host = "up" /\ daemon = "active" /\ ~JustStarted /\ proc = "hung"
    /\ hb.age = Change(daemonConf) + Interval(daemonConf)

C11_Original == staleSeen <= 1

\* C11 as amended: the daemon keeps no latch per episode; every check cycle
\* that sees the record Stale orders a reboot in that cycle, the first one of
\* the episode and every later one that still finds the record not updated.
C11_RebootPerStalePoll ==
    obs.polled /\ obs.class = "Stale" =>
        /\ obs.reboot /\ host = "reset" /\ resetCause = "daemon"
        /\ ~obs.absent => staleSeen >= 1

C11_Witness ==
    /\ obs.polled /\ obs.class = "Stale" /\ ~obs.absent
    /\ staleSeen = MaxStaleSeen /\ host = "reset" /\ resetCause = "daemon"

C14_Original ==
    /\ 0 <= winCount /\ winCount <= maxRestartsPerWindow
    /\ winAge < windowDuration
    /\ winCount = 0 => winAge = 0

\* C14 as amended: the count of a window is never negative, starts again from
\* 0 once the window has lasted windowDuration, and is bounded only by the
\* restart wait: at most windowDuration / RestartSec relaunches fit in one
\* window, which is more than maxRestartsPerWindow.
C14_CountBoundedByRestartSec ==
    /\ 0 <= winCount /\ winCount * RestartSec <= windowDuration
    /\ winCount > 0 => (winCount - 1) * RestartSec <= winAge
    /\ 0 <= winAge /\ winAge < windowDuration
    /\ winCount = 0 => winAge = 0

C14_Witness ==
    /\ winCount * RestartSec = windowDuration
    /\ winCount > maxRestartsPerWindow
    /\ winAge = windowDuration - RestartSec

\* C15: unless the service is stopped by command, a service waiting for its
\* restart is eventually relaunched (Starting again), as long as the host
\* schedules its tasks at all.
C15_RecoveryNeverGivesUp ==
    (svc = "Restarting" /\ host = "up") ~>
        (svc = "Starting" \/ svc = "Stopped" \/ host = "frozen")

C15_Witness ==
    svc = "Starting" /\ lastDelay = RestartSec /\ exitCause = "crash"

C18_KilledStaysArmed ==
    /\ daemon = "killed" =>
          /\ sinceRefresh <= WatchdogTimeout
          /\ disarmedBy = "none"
    /\ daemon = "killed" /\ host = "reset" =>
          resetCause = "hwtimer" /\ sinceRefresh = WatchdogTimeout

C18_Witness ==
    /\ daemon = "killed" /\ host = "reset" /\ resetCause = "hwtimer"
    /\ sinceRefresh = WatchdogTimeout /\ svc = "Running" /\ proc = "ok"

PasswordFields ==
    << passwordPage.currentPassword, passwordPage.newPassword,
       passwordPage.confirmPassword >>

\* C20: the password-change request is sent only when the new password
\* equals its confirmation and has at least 6 characters; a submit that
\* fails either check sends nothing and leaves the three fields as they are;
\* the component empties the fields only when the change succeeded.
C20_PasswordChangeGuarded ==
    /\ [](passwordPage.pending.some =>
             Len(passwordPage.pending.new_password) >= 6)
    /\ [][(~passwordPage.pending.some /\ passwordPage'.pending.some) =>
             /\ passwordPage.newPassword = passwordPage.confirmPassword
             /\ Len(passwordPage.newPassword) >= 6
             /\ passwordPage'.pending.new_password = passwordPage.newPassword
             /\ PasswordFields' = PasswordFields]_vars
    /\ [][(/\ ~passwordPage.saving /\ PasswordFields' = PasswordFields
            /\ (\/ passwordPage.newPassword # passwordPage.confirmPassword
                \/ Len(passwordPage.newPassword) < 6)) =>
             passwordPage'.pending = passwordPage.pending]_vars
    /\ [][(passwordPage.pending.some /\ ~passwordPage'.pending.some) =>
             IF passwordPage'.toast = "Sucesso"
             THEN PasswordFields' = << "", "", "" >>
             ELSE PasswordFields' = PasswordFields]_vars

C20_Witness ==
    /\ passwordPage.toast = "A nova senha deve ter pelo menos 6 caracteres"
    /\ ~passwordPage.pending.some /\ ~passwordPage.saving
    /\ passwordPage.newPassword = "abcde"
    /\ passwordPage.confirmPassword = "abcde"

\* C21: a run of the installation script leaves an environment.json that
\* exists as it was, leaves every file already in the data directory as it
\* was, and copies the bundled or example configuration only when there was
\* no environment.json.
C21_InstallKeepsSiteFiles ==
    installFs.run.script # "none" =>
        /\ installFs.run.beforeEnv # "none" =>
               installFs.env = installFs.run.beforeEnv
        /\ \A f \in DataFiles :
               installFs.run.beforeData[f] # "none" =>
                   installFs.data[f] = installFs.run.beforeData[f]
        /\ installFs.run.copied # "none" =>
               /\ installFs.run.beforeEnv = "none"
               /\ installFs.env = installFs.run.copied

C21_Witness ==
    /\ installFs.run.script = "deploy/install.sh"
    /\ installFs.run.srcEnv /\ installFs.run.srcData = DataFiles
    /\ installFs.run.beforeEnv = "site" /\ installFs.env = "site"
    /\ installFs.data["bed_reference.json"] = "site"
    /\ installFs.data["logs/alerts.log"] = "bundled"
    /\ installFs.code = "v2"

\* the states of hospital-monitor.service and the transitions of the design
ServiceStates == {"Stopped", "Starting", "Running", "Degraded", "Restarting"}

DefinedTransitions ==
    {<< "Stopped", "Starting" >>, << "Starting", "Running" >>,
     << "Starting", "Restarting" >>, << "Running", "Degraded" >>,
     << "Degraded", "Restarting" >>, << "Restarting", "Starting" >>}
        \cup {<< s, "Stopped" >> : s \in ServiceStates}

\* C22 as stated: while the host runs, the service changes state only along
\* the defined transitions; Running is left for Degraded, never directly for
\* Restarting or Starting.
C22_Original ==
    [][host # "reset" /\ svc' # svc =>
          << svc, svc' >> \in DefinedTransitions]_vars

\* C22 as amended: there is no Degraded state; the service changes state only
\* along Stopped->Starting, Starting->Running, Starting->Restarting,
\* Running->Restarting (directly, when the process exits),
\* Restarting->Starting and any->Stopped, and a reboot of the host is
\* followed by Starting whatever the state before it.
C22_TransitionsWithoutDegraded ==
    /\ [](svc \in ServiceStates \ {"Degraded"})
    /\ [][host # "reset" /\ svc' # svc =>
             << svc, svc' >> \in
                 (DefinedTransitions \ {<< "Running", "Degraded" >>,
                                        << "Degraded", "Restarting" >>})
                     \cup {<< "Running", "Restarting" >>}]_vars
    /\ [][host = "reset" /\ host' # "reset" => svc' = "Starting"]_vars

C22_Witness ==
    /\ svc = "Restarting" /\ exitCause = "crash" /\ restartTimer = 0
    /\ proc = "none" /\ host = "up"

\* a check cycle has found the Running service degraded: its record Stale
\* or the host under resource pressure
SeenDegraded ==
    obs.polled /\ svc = "Running" /\ (obs.class = "Stale" \/ obs.pressure)

\* C23 as stated: once the Running service has been found degraded, its next
\* change of state is to Restarting (or to Stopped on a stop command).
C23_Original ==
    [][SeenDegraded /\ svc' # svc => svc' \in {"Restarting", "Stopped"}]_vars

\* C23 as amended: there is no Degraded state to dwell in.  An exit of the
\* process takes the Running service to Restarting in that same step; a Stale
\* record or resource pressure found by a check cycle is answered in that
\* cycle by a reboot of the host, never by Restarting, and the service leaves
\* Running only for Stopped (a stop or restart command) or, through the
\* reboot, for Starting; it does not return to Running without a relaunch.
C23_NoDegradedDwell ==
    /\ [][svc = "Running" /\ proc # "none" /\ proc' = "none" =>
             svc' \in {"Restarting", "Stopped"}]_vars
    /\ [](SeenDegraded => host = "reset" /\ resetCause = "daemon")
    /\ [][SeenDegraded /\ svc' # svc =>
             \/ svc' = "Stopped"
             \/ host = "reset" /\ host' = "up" /\ svc' = "Starting"]_vars

C23_Witness ==
    /\ SeenDegraded /\ obs.class = "Stale" /\ ~obs.pressure /\ proc = "hung"
    /\ host = "reset" /\ resetCause = "daemon"

\* C24 as stated: a service stopped by command leaves Stopped only by a
\* start command, given while the host is up; nothing automatic relaunches it.
C24_Original ==
    [][svc = "Stopped" /\ exitCause = "stop" /\ svc' # "Stopped" =>
          host = "up" /\ svc' = "Starting" /\ lastDelay' = -1]_vars

\* C24 as amended: a stop command is accepted in every state and leads to
\* Stopped with no process and no restart pending; while the host stays up,
\* Stopped is left only by a start command (never by the restart policy or a
\* pending restart wait); a reboot of the host, which the watchdog daemon
\* orders when it finds the stopped service's record Stale or its process
\* missing, starts the service again.
C24_StoppedUntilStartOrReboot ==
    /\ [](host = "up" /\ svc # "Stopped" => ENABLED systemctl_stop)
    /\ [](svc = "Stopped" => proc = "none" /\ lastDelay = -1)
    /\ [][svc # "Stopped" /\ svc' = "Stopped" =>
             /\ host = "up" /\ proc' = "none" /\ restartTimer' = 0
             /\ exitCause' \in {"stop", "restart"}]_vars
    /\ [][svc = "Stopped" /\ svc' # "Stopped" =>
             /\ svc' = "Starting" /\ lastDelay' = -1 /\ host' = "up"
             /\ host \in {"up", "reset"}]_vars

C24_Witness ==
    /\ svc = "Stopped" /\ exitCause = "stop"
    /\ host = "reset" /\ resetCause = "daemon"
    /\ obs.polled /\ obs.class = "Stale" /\ ~obs.absent /\ obs.pidok

\* C25 as stated: the service moves from Starting to Running only on a Fresh
\* heartbeat (a record that exists and is Fresh by a configured threshold).
C25_Original ==
    [][svc = "Starting" /\ svc' = "Running" =>
          /\ hb.exists
          /\ \E c \in Confs : Classify(hb.age, Change(c)) = "Fresh"]_vars

\* C25 as amended: the service moves from Starting to Running as soon as the
\* process is forked, whatever the heartbeat record, and before any time
\* passes, so it never stays in Starting; there is no grace period whose end
\* moves it to Restarting: Starting is left only for Running or Stopped, and
\* Restarting is entered only when the process has exited.
C25_StartedWhenForked ==
    /\ [](svc = "Starting" /\ host = "up" =>
             proc = "ok" /\ sinceWrite = 0 /\ ENABLED StartComplete)
    /\ [][svc = "Starting" /\ host = "up" /\ svc' # svc =>
             svc' \in {"Running", "Stopped"}]_vars
    /\ [][svc = "Starting" /\ svc' = "Running" =>
             hb' = hb /\ sinceWrite' = 0 /\ proc' = "ok"]_vars
    /\ [](svc = "Restarting" /\ host = "up" =>
             proc = "none" /\ exitCause \in ExitCauses)

C25_Witness ==
    /\ svc = "Running" /\ host = "up" /\ proc = "ok" /\ sinceWrite = 0
    /\ ~hb.exists /\ daemon = "inactive"

\* C26: on the dashboard view, with its data loaded and no request under
\* way, the 'Imagens DEV' card is shown exactly when DEV_MODE is active in
\* the settings the backend has saved.
C26_ImagesCardFollowsSavedSettings ==
    (/\ CardsShown /\ ~dashboard.settings.isNull
     /\ dashboard.loads = 0 /\ dashboard.timers = 0
     /\ ~settingsPage.pending.some)
        => (ImagesCardShown <=> backend.settings.DEV_MODE)

\* C27: while checkAuth is pending neither the Dashboard nor the LoginForm is
\* rendered; an answer other than authenticated = true, and a failed request,
\* lead to the LoginForm; the Dashboard appears only on the answer
\* authenticated = true or from the LoginForm, by a successful login.
C27_FailClosed ==
    /\ [](homePage.check = "pending" =>
             /\ homePage.authenticated = "null"
             /\ ~DashboardRendered /\ ~LoginFormRendered)
    /\ [](dashboard.mounted <=> DashboardRendered)
    /\ [][homePage.check = "pending" /\ homePage'.check # "pending" =>
             IF homePage'.check = "true"
             THEN DashboardRendered'
             ELSE LoginFormRendered' /\ ~dashboard'.mounted]_vars
    /\ [][~DashboardRendered /\ DashboardRendered' =>
             \/ homePage.check = "pending" /\ homePage'.check = "true"
             \/ LoginFormRendered]_vars

C27_Witness ==
    /\ homePage.check = "failed" /\ homePage.authenticated = "false"
    /\ LoginFormRendered /\ ~dashboard.mounted

\* C28: every page the LogViewer requests from the backend is within range:
\* the request is for page 0 or its offset (currentPage * 50) is below the
\* total_lines of the file and filters it asks for; a change of file, level,
\* category or search text is fetched from page 0.
C28_RequestedPageInRange ==
    LogViewerRendered =>
        \A i \in 1..Len(logViewer.requests) :
            LET request == logViewer.requests[i]
            IN  request.offset = 0 \/ request.offset < total_lines(request)

\* C29: once no log request is outstanding (and none has failed), the rows
\* and the total displayed are those of the most recently issued request,
\* whatever the order in which the responses arrived.
C29_LatestRequestDisplayed ==
    (LogViewerRendered /\ logViewer.requests = << >>
        /\ logViewer.toast = "none") =>
        /\ logViewer.entries = logViewer.issued
        /\ logViewer.totalLines = total_lines(logViewer.issued)

\* C30: whenever the Dashboard shows the DeviceConfig view, the environment
\* configuration it passes is loaded, not null.
C30_DeviceViewHasConfig ==
    dashboard.mounted /\ dashboard.view = "device" => dashboard.config # "null"

====
